---- MODULE Spec2Model ----
(***************************************************************************)
(* Model of custom_components/olarm_sensors/olarm_api.py (class OlarmApi). *)
(*                                                                         *)
(* Python strings are sequences of one-character strings, so that          *)
(* str.lower(), str.strip(), indexing and f-string formatting are computed *)
(* character by character.  A Python call either returns a value or raises *)
(* an exception: [kind |-> "return", val |-> v] / [kind |-> "raise", ...]. *)
(***************************************************************************)
EXTENDS Integers, Sequences, FiniteSets, TLC

VARIABLES devices_json, server, data, bypass_data, panel_data, op, ret, posted

vars == <<devices_json, server, data, bypass_data, panel_data, op, ret, posted>>

(* ------------------------------ bounds --------------------------------- *)
MaxLimit == 2
MaxActions == 2

(* ------------------------- Python primitives --------------------------- *)
Return(v) == [kind |-> "return", val |-> v]
Raise(e) == [kind |-> "raise", exc |-> e]

LowerChar(c) ==
  CASE c = "A" -> "a" [] c = "B" -> "b" [] c = "C" -> "c"
    [] c = "O" -> "o" [] c = "K" -> "k" [] c = "F" -> "f"
    [] OTHER -> c

Lower(s) == [k \in DOMAIN s |-> LowerChar(s[k])]

IsSpace(c) == c = " "

RECURSIVE LStrip(_)
LStrip(s) == IF s # <<>> /\ IsSpace(Head(s)) THEN LStrip(Tail(s)) ELSE s

RECURSIVE RStrip(_)
RStrip(s) ==
  IF s # <<>> /\ IsSpace(s[Len(s)]) THEN RStrip(SubSeq(s, 1, Len(s) - 1)) ELSE s

Strip(s) == RStrip(LStrip(s))

DigitChar(d) ==
  CASE d = 0 -> "0" [] d = 1 -> "1" [] d = 2 -> "2" [] d = 3 -> "3"
    [] d = 4 -> "4" [] d = 5 -> "5" [] d = 6 -> "6" [] d = 7 -> "7"
    [] d = 8 -> "8" [] d = 9 -> "9"

RECURSIVE IntToStr(_)
IntToStr(n) ==
  IF n < 10 THEN <<DigitChar(n)>> ELSE Append(IntToStr(n \div 10), DigitChar(n % 10))

IsDigit(c) == c \in {"0", "1", "2", "3", "4", "5", "6", "7", "8", "9"}

DigitVal(c) == CHOOSE d \in 0..9 : DigitChar(d) = c

RECURSIVE ParseDigits(_)
ParseDigits(s) ==
  IF s = <<>> THEN 0 ELSE 10 * ParseDigits(SubSeq(s, 1, Len(s) - 1)) + DigitVal(s[Len(s)])

(* int(x) on the text of x: surrounding whitespace is ignored, an optional  *)
(* sign is accepted, anything else than decimal digits is a ValueError.     *)
PyInt(s) ==
  LET t == Strip(s)
      neg == t # <<>> /\ Head(t) = "-"
      u == IF t # <<>> /\ Head(t) \in {"-", "+"} THEN Tail(t) ELSE t
  IN IF u = <<>> \/ \E k \in DOMAIN u : ~IsDigit(u[k])
     THEN Raise("ValueError")
     ELSE Return(IF neg THEN 0 - ParseDigits(u) ELSE ParseDigits(u))

(* seq[i] with a 0-based index *)
Item(seq, i) == IF i + 1 \in DOMAIN seq THEN Return(seq[i + 1]) ELSE Raise("IndexError")

(* ------------- exception classes imported from .exceptions ------------- *)
APIClientConnectorError == {"ClientConnectorError", "IndexError", "ValueError"}
ListIndexError == {"IndexError"}

(* -------------------------- get_changed_by_json ------------------------ *)
NoUser == [userFullname |-> "No User", actionCreated |-> 0, actionCmd |-> "None"]

Blocklist == {"zone-bypass", "pgm-open", "pgm-close", "pgm-pulse", "ukey-activate"}

Eligible_anyCmd(change, area) == change.actionNum = area

Eligible(change, area) ==
  /\ change.actionCmd \notin Blocklist
  /\ change.actionNum = area

RECURSIVE ScanChanges(_, _, _)
ScanChanges(changes, area, return_data) ==
  IF changes = <<>> THEN return_data
  ELSE LET change == Head(changes)
       IN ScanChanges(Tail(changes), area,
            IF Eligible(change, area) /\ return_data.actionCreated < change.actionCreated
            THEN change ELSE return_data)

get_changed_by_json_scan404(srv, area) ==
  IF srv.kind = "error"
  THEN IF srv.exc \in APIClientConnectorError THEN Return(NoUser) ELSE Raise(srv.exc)
  ELSE Return(ScanChanges(srv.body, area, NoUser))

get_changed_by_json(srv, area) ==
  IF srv.kind = "error"
  THEN IF srv.exc \in APIClientConnectorError THEN Return(NoUser) ELSE Raise(srv.exc)
  ELSE IF srv.status = 404 THEN Return(NoUser)
  ELSE Return(ScanChanges(srv.body, area, NoUser))

(* ------------------ update_zone / update_pgm / update_ukey ------------- *)
OkStr == <<"o", "k">>

update_zone_caseSensitive(srv, post_data) ==
  IF srv.kind = "error"
  THEN IF srv.exc \in APIClientConnectorError THEN Return(FALSE) ELSE Raise(srv.exc)
  ELSE Return(srv.resp.actionStatus = OkStr)

update_zone(srv, post_data) ==
  IF srv.kind = "error"
  THEN IF srv.exc \in APIClientConnectorError THEN Return(FALSE) ELSE Raise(srv.exc)
  ELSE Return(Lower(srv.resp.actionStatus) = OkStr)

update_pgm(srv, pgm_data) ==
  IF srv.kind = "error"
  THEN IF srv.exc \in APIClientConnectorError THEN Return(FALSE) ELSE Raise(srv.exc)
  ELSE Return(Lower(srv.resp.actionStatus) = OkStr)

update_ukey(srv, ukey_data) ==
  IF srv.kind = "error"
  THEN IF srv.exc \in APIClientConnectorError THEN Return(FALSE) ELSE Raise(srv.exc)
  ELSE Return(Lower(srv.resp.actionStatus) = OkStr)

(* ---------------------------- command builders ------------------------- *)
arm_area_payload(a) == [actionCmd |-> "area-arm", actionNum |-> a.data.area]
sleep_area_payload_arm(a) == [actionCmd |-> "area-arm", actionNum |-> a.data.area]

sleep_area_payload(a) == [actionCmd |-> "area-sleep", actionNum |-> a.data.area]
stay_area_payload(a) == [actionCmd |-> "area-stay", actionNum |-> a.data.area]
disarm_area_payload(a) == [actionCmd |-> "area-disarm", actionNum |-> a.data.area]
bypass_zone_payload(zone) == [actionCmd |-> "zone-bypass", actionNum |-> zone.data.zone_num]

(* ------------------------------ normalizers ---------------------------- *)
(* A loop returns the list built so far and the exception that ended it    *)
(* ("" when it ran to completion).                                         *)
NoExc == ""

ZoneStr == <<"Z", "o", "n", "e", " ">>
AreaStr == <<"A", "r", "e", "a", " ">>
PgmStr == <<"P", "G", "M", " ">>
UkeyStr == <<"U", "k", "e", "y", " ">>

(* strptime(ctime(ms / 1000)) + timedelta(hours=2), then strftime: the     *)
(* wall-clock second the formatted text denotes.                           *)
TwoHours == 7200
MsPerSecond == 1000
LastChanged(ms) == [wallclock |-> ms \div MsPerSecond + TwoHours]

LabelSet(labels, i) ==
  /\ i < Len(labels)
  /\ labels[i + 1] # <<>>
  /\ Strip(labels[i + 1]) # <<>>

ZoneState_caseSensitive(code) == IF code = <<"a">> THEN "on" ELSE "off"

ZoneState(code) == IF Lower(code) = <<"a">> THEN "on" ELSE "off"

BypassState_active(code) == IF Lower(code) \in {<<"a">>, <<"b">>} THEN "on" ELSE "off"

BypassState(code) == IF Lower(code) = <<"b">> THEN "on" ELSE "off"

RECURSIVE SensorLoop(_, _, _)
SensorLoop(js, zone, acc) ==
  LET st == js.deviceState
      pr == js.deviceProfile
  IN IF zone >= pr.zonesLimit THEN [list |-> acc, exc |-> NoExc]
     ELSE IF Item(st.zones, zone).kind = "raise" THEN [list |-> acc, exc |-> "IndexError"]
     ELSE IF Item(st.zonesStamp, zone).kind = "raise" THEN [list |-> acc, exc |-> "IndexError"]
     ELSE IF LabelSet(pr.zonesLabels, zone) /\ Item(pr.zonesTypes, zone).kind = "raise"
          THEN [list |-> acc, exc |-> "IndexError"]
     ELSE SensorLoop(js, zone + 1, Append(acc,
            [name |-> IF LabelSet(pr.zonesLabels, zone) THEN pr.zonesLabels[zone + 1]
                      ELSE ZoneStr \o IntToStr(zone + 1),
             state |-> ZoneState(st.zones[zone + 1]),
             last_changed |-> LastChanged(st.zonesStamp[zone + 1]),
             type |-> IF LabelSet(pr.zonesLabels, zone) THEN pr.zonesTypes[zone + 1] ELSE 0]))

PowerRecord(item) ==
  [name |-> <<"Powered by ", IF item.key = "Batt" THEN "Battery" ELSE item.key>>,
   state |-> IF item.value = 1 THEN "on" ELSE "off",
   last_changed |-> "None",
   type |-> IF item.key = "Batt" THEN 1001 ELSE 1000]

PowerLoop(power) == [k \in DOMAIN power |-> PowerRecord(power[k])]

get_sensor_states(js) ==
  LET zl == SensorLoop(js, 0, <<>>)
  IN IF zl.exc # NoExc THEN zl
     ELSE [list |-> zl.list \o PowerLoop(js.deviceState.power), exc |-> NoExc]

RECURSIVE BypassLoop(_, _, _)
BypassLoop(js, zone, acc) ==
  LET st == js.deviceState
      pr == js.deviceProfile
  IN IF zone >= pr.zonesLimit THEN [list |-> acc, exc |-> NoExc]
     ELSE IF Item(st.zones, zone).kind = "raise" THEN [list |-> acc, exc |-> "IndexError"]
     ELSE IF Item(st.zonesStamp, zone).kind = "raise" THEN [list |-> acc, exc |-> "IndexError"]
     ELSE BypassLoop(js, zone + 1, Append(acc,
            [name |-> IF LabelSet(pr.zonesLabels, zone) THEN pr.zonesLabels[zone + 1]
                      ELSE ZoneStr \o IntToStr(zone + 1),
             state |-> BypassState(st.zones[zone + 1]),
             last_changed |-> LastChanged(st.zonesStamp[zone + 1])]))

get_sensor_bypass_states(js) == BypassLoop(js, 0, <<>>)

(* get_panel_states writes the generated name back into areasLabels, so    *)
(* the loop also carries the label list.                                   *)
RECURSIVE PanelLoop(_, _, _, _)
PanelLoop(js, area_num, olarm_zones, acc) ==
  LET areas == js.deviceState.areas
  IN IF area_num >= js.deviceProfile.areasLimit
     THEN [list |-> acc, labels |-> olarm_zones, exc |-> NoExc]
     ELSE IF Item(olarm_zones, area_num).kind = "raise"
     THEN IF "IndexError" \in APIClientConnectorError
          THEN PanelLoop(js, area_num + 1, olarm_zones, acc)
          ELSE [list |-> acc, labels |-> olarm_zones, exc |-> "IndexError"]
     ELSE LET named == IF olarm_zones[area_num + 1] = <<>>
                       THEN [olarm_zones EXCEPT ![area_num + 1] = AreaStr \o IntToStr(area_num + 1)]
                       ELSE olarm_zones
          IN PanelLoop(js, area_num + 1, named,
               IF Len(areas) > area_num
               THEN Append(acc, [name |-> named[area_num + 1], state |-> areas[area_num + 1]])
               ELSE acc)

get_panel_states(js) == PanelLoop(js, 0, js.deviceProfile.areasLabels, <<>>)

(* pgm_setup[i][k] inside try / except ListIndexError: continue *)
CharAt(str, k) ==
  IF Item(str, k).kind = "raise" /\ "IndexError" \notin ListIndexError
  THEN "raise"
  ELSE IF Item(str, k).kind = "raise" THEN "continue" ELSE "ok"

PgmRecord_pulseAt1(js, i) ==
  LET pgm_state == js.deviceState.pgm
      pgm_labels == js.deviceProfile.pgmLabels
      pgm_setup == js.deviceProfile.pgmControl
  IN [name |-> IF pgm_labels[i + 1] = <<>> THEN PgmStr \o IntToStr(i + 1)
               ELSE pgm_labels[i + 1],
      enabled |-> pgm_setup[i + 1][1] = "1",
      pulse |-> pgm_setup[i + 1][2] = "1",
      state |-> Lower(pgm_state[i + 1]) = <<"a">>,
      pgm_number |-> i + 1]

PgmRecord(js, i) ==
  LET pgm_state == js.deviceState.pgm
      pgm_labels == js.deviceProfile.pgmLabels
      pgm_setup == js.deviceProfile.pgmControl
  IN [name |-> IF pgm_labels[i + 1] = <<>> THEN PgmStr \o IntToStr(i + 1)
               ELSE pgm_labels[i + 1],
      enabled |-> pgm_setup[i + 1][1] = "1",
      pulse |-> pgm_setup[i + 1][3] = "1",
      state |-> Lower(pgm_state[i + 1]) = <<"a">>,
      pgm_number |-> i + 1]

RECURSIVE PgmLoop(_, _, _)
PgmLoop(js, i, pgms) ==
  LET pgm_state == js.deviceState.pgm
      pgm_labels == js.deviceProfile.pgmLabels
      pgm_setup == js.deviceProfile.pgmControl
  IN IF i >= js.deviceProfile.pgmLimit THEN [list |-> pgms, exc |-> NoExc]
     ELSE IF Item(pgm_state, i).kind = "raise" THEN [list |-> pgms, exc |-> "IndexError"]
     ELSE IF Item(pgm_labels, i).kind = "raise" THEN [list |-> pgms, exc |-> "IndexError"]
     ELSE IF Item(pgm_setup, i).kind = "raise" THEN [list |-> pgms, exc |-> "IndexError"]
     ELSE IF pgm_setup[i + 1] = <<>> THEN PgmLoop(js, i + 1, pgms)
     ELSE IF CharAt(pgm_setup[i + 1], 0) = "raise" THEN [list |-> pgms, exc |-> "IndexError"]
     ELSE IF CharAt(pgm_setup[i + 1], 0) = "continue" THEN PgmLoop(js, i + 1, pgms)
     ELSE IF CharAt(pgm_setup[i + 1], 2) = "raise" THEN [list |-> pgms, exc |-> "IndexError"]
     ELSE IF CharAt(pgm_setup[i + 1], 2) = "continue" THEN PgmLoop(js, i + 1, pgms)
     ELSE PgmLoop(js, i + 1, Append(pgms, PgmRecord(js, i)))

get_pgm_zones(js) == PgmLoop(js, 0, <<>>)

(* The exception raised by the body of the ukey loop at index i, if any *)
UkeyExc(js, i) ==
  LET ukey_state == js.deviceProfile.ukeysControl
      ukey_labels == js.deviceProfile.ukeysLabels
  IN IF Item(ukey_state, i).kind = "raise" THEN "IndexError"
     ELSE IF PyInt(ukey_state[i + 1]).kind = "raise" THEN "ValueError"
     ELSE IF Item(ukey_labels, i).kind = "raise" THEN "IndexError"
     ELSE NoExc

UkeyFailed_partial(exc, ukeys) ==
  IF exc \in APIClientConnectorError THEN [list |-> ukeys, exc |-> NoExc]
  ELSE [list |-> ukeys, exc |-> exc]

UkeyFailed(exc, ukeys) ==
  IF exc \in APIClientConnectorError THEN [list |-> <<>>, exc |-> NoExc]
  ELSE [list |-> ukeys, exc |-> exc]

UkeyRecord(js, i) ==
  LET ukey_state == js.deviceProfile.ukeysControl
      ukey_labels == js.deviceProfile.ukeysLabels
  IN [name |-> IF ukey_labels[i + 1] = <<>> THEN UkeyStr \o IntToStr(i + 1)
               ELSE ukey_labels[i + 1],
      state |-> PyInt(ukey_state[i + 1]).val = 1,
      ukey_number |-> i + 1]

RECURSIVE UkeyLoop(_, _, _)
UkeyLoop(js, i, ukeys) ==
  IF i >= js.deviceProfile.ukeysLimit THEN [list |-> ukeys, exc |-> NoExc]
  ELSE IF UkeyExc(js, i) # NoExc THEN UkeyFailed(UkeyExc(js, i), ukeys)
  ELSE UkeyLoop(js, i + 1, Append(ukeys, UkeyRecord(js, i)))

get_ukey_zones(js) == UkeyLoop(js, 0, <<>>)

(* self.data = [], self.bypass_data = [], self.panel_data = [] ahead of    *)
(* the loop that appends to the list: what the list holds when the loop    *)
(* starts, given what the previous call left in it.                        *)
FreshData_keep(old) == old

FreshData(old) == <<>>

FreshBypass(old) == <<>>

FreshPanel(old) == <<>>

(* return self.data / self.bypass_data / self.panel_data, or the exception *)
(* that left the loop                                                      *)
Held(list, exc) == IF exc = NoExc THEN Return(list) ELSE Raise(exc)

(* ---------------------------- get_devices_json ------------------------- *)
EmptyObject == <<>>

get_devices_json(reply) ==
  IF reply.kind = "error"
  THEN IF reply.exc \in APIClientConnectorError THEN Return(EmptyObject) ELSE Raise(reply.exc)
  ELSE Return(reply.json)

(* What a caller of a normalizer observes *)
Outcome(r) == IF r.exc = NoExc THEN Return(r.list) ELSE Raise(r.exc)

(* ------------------------------- inputs -------------------------------- *)
SeqsUpTo(S, n) == UNION {[1..k -> S] : k \in 0..n}

Codes == {<<"a">>, <<"A">>, <<"b">>, <<"B">>, <<"c">>}
Labels == {<<>>, <<" ">>, <<"K">>}
Stamps == {0, 1500}
Powers == {<<>>, <<[key |-> "AC", value |-> 1]>>,
           <<[key |-> "AC", value |-> 0], [key |-> "Batt", value |-> 1]>>}
AreaCodes == {"disarm", "arm"}
PgmCodes == {<<"A">>, <<"c">>}
Controls == {<<>>, <<"1", "0">>, <<"1", "0", "1">>, <<"0", "1", "0">>}
UkeyEntries == {<<"1">>, <<"0">>, <<"x">>}

EmptySnapshot ==
  [deviceState |-> [zones |-> <<>>, zonesStamp |-> <<>>, areas |-> <<>>,
                    power |-> <<>>, pgm |-> <<>>],
   deviceProfile |-> [zonesLimit |-> 0, zonesLabels |-> <<>>, zonesTypes |-> <<>>,
                      areasLimit |-> 0, areasLabels |-> <<>>,
                      pgmLimit |-> 0, pgmLabels |-> <<>>, pgmControl |-> <<>>,
                      ukeysLimit |-> 0, ukeysLabels |-> <<>>, ukeysControl |-> <<>>]]

(* zonesStamp is reported alongside zones and zonesTypes alongside          *)
(* zonesLabels, so each pair has one length.                                *)
(* Snapshots whose lists hold at most n entries *)
ZoneSnapshots(n) ==
  {[EmptySnapshot EXCEPT !.deviceState.zones = z,
                         !.deviceState.zonesStamp = [k \in DOMAIN z |-> t],
                         !.deviceState.power = p,
                         !.deviceProfile.zonesLimit = m,
                         !.deviceProfile.zonesLabels = l,
                         !.deviceProfile.zonesTypes = [k \in DOMAIN l |-> k]] :
     z \in SeqsUpTo(Codes, n), t \in Stamps, p \in Powers,
     m \in 0..n, l \in SeqsUpTo(Labels, n)}

AreaSnapshots(n) ==
  {[EmptySnapshot EXCEPT !.deviceState.areas = a,
                         !.deviceProfile.areasLimit = m,
                         !.deviceProfile.areasLabels = l] :
     a \in SeqsUpTo(AreaCodes, n), m \in 0..n, l \in SeqsUpTo(Labels, n)}

PgmSnapshots(n) ==
  {[EmptySnapshot EXCEPT !.deviceState.pgm = g,
                         !.deviceProfile.pgmLimit = m,
                         !.deviceProfile.pgmLabels = l,
                         !.deviceProfile.pgmControl = c] :
     g \in SeqsUpTo(PgmCodes, n), m \in 0..n,
     l \in SeqsUpTo(Labels, n), c \in SeqsUpTo(Controls, n)}

UkeySnapshots(n) ==
  {[EmptySnapshot EXCEPT !.deviceProfile.ukeysLimit = m,
                         !.deviceProfile.ukeysLabels = l,
                         !.deviceProfile.ukeysControl = c] :
     m \in 0..n, l \in SeqsUpTo(Labels, n), c \in SeqsUpTo(UkeyEntries, n)}

AreaNums == {1, 2}
ActionCmds == {"area-arm", "area-disarm", "zone-bypass", "pgm-open", "ukey-activate"}
Created == {0, 1, 2}
Changes ==
  [userFullname : {"Alice"}, actionCmd : ActionCmds, actionNum : AreaNums,
   actionCreated : Created]
Statuses == {<<"o", "k">>, <<"O", "K">>, <<"O", "k">>, <<"o", "K">>, <<"k", "o">>,
             <<"f", "a", "i", "l">>, <<>>}

IdleServer ==
  [kind |-> "response", exc |-> "None", status |-> 200, body |-> <<>>,
   resp |-> [actionStatus |-> <<>>]]

(* What the actions endpoint answers to GET, with at most n actions *)
ActionServers(n) ==
  {[IdleServer EXCEPT !.status = c, !.body = b] :
     c \in {200, 404}, b \in SeqsUpTo(Changes, n)}
  \cup {[IdleServer EXCEPT !.kind = "error", !.exc = "ClientConnectorError"]}

(* What the actions endpoint answers to POST *)
PostServers ==
  {[IdleServer EXCEPT !.resp.actionStatus = a] : a \in Statuses}
  \cup {[IdleServer EXCEPT !.kind = "error", !.exc = "ClientConnectorError"]}

Payloads == [actionCmd : ActionCmds, actionNum : AreaNums]
Contexts == {[data |-> [area |-> a, zone_num |-> z]] : a \in AreaNums, z \in AreaNums}

(* A snapshot with every family filled in from one list of raw codes z, one *)
(* limit m and one list of labels l                                        *)
FullSnapshot(z, m, l) ==
  [deviceState |-> [zones |-> z, zonesStamp |-> [k \in DOMAIN z |-> 1500],
                    areas |-> [k \in DOMAIN z |-> IF z[k] = <<"a">> THEN "arm" ELSE "disarm"],
                    power |-> <<[key |-> "Batt", value |-> 1]>>, pgm |-> z],
   deviceProfile |-> [zonesLimit |-> m, zonesLabels |-> l, zonesTypes |-> [k \in DOMAIN l |-> k],
                      areasLimit |-> m, areasLabels |-> l,
                      pgmLimit |-> m, pgmLabels |-> l,
                      pgmControl |-> [k \in 1..m |-> <<"1", "0", "1">>],
                      ukeysLimit |-> m, ukeysLabels |-> l,
                      ukeysControl |-> [k \in 1..m |-> <<"1">>]]]

FullSnapshots ==
  {FullSnapshot(z, m, l) : z \in {<<(<<"a">>), (<<"b">>)>>, <<(<<"b">>)>>}, m \in {1, 2},
                           l \in {<<>>, <<(<<"K">>), (<<>>)>>}}

(* What the device endpoint answers to GET *)
DeviceReplies ==
  {[kind |-> "response", exc |-> "None", json |-> j] : j \in FullSnapshots}
  \cup {[kind |-> "error", exc |-> "ClientConnectorError", json |-> EmptyObject]}

(* ------------------------------- __init__ ------------------------------ *)
Constructed ==
  /\ data = <<>>
  /\ bypass_data = <<>>
  /\ panel_data = <<>>
  /\ op = [name |-> "__init__", arg |-> "None"]
  /\ ret = Return("None")
  /\ posted = <<>>

InitZones == Constructed /\ server = IdleServer /\ devices_json \in ZoneSnapshots(MaxLimit)
InitPanel == Constructed /\ server = IdleServer /\ devices_json \in AreaSnapshots(MaxLimit)
InitPgm == Constructed /\ server = IdleServer /\ devices_json \in PgmSnapshots(MaxLimit)
InitUkey == Constructed /\ server = IdleServer /\ devices_json \in UkeySnapshots(MaxLimit)
InitActor == Constructed /\ server \in ActionServers(MaxActions) /\ devices_json = EmptySnapshot
InitSend == Constructed /\ server \in PostServers /\ devices_json = EmptySnapshot

(* The whole adapter from construction: snapshots arrive by get_devices_json *)
Init == Constructed /\ server = IdleServer /\ devices_json = EmptySnapshot

InitFresh == Constructed /\ server = IdleServer /\ devices_json = EmptySnapshot

(* ------------------------------- actions ------------------------------- *)
(* devices_json is the snapshot the caller hands to the normalizers: the    *)
(* object just fetched, or the one it already had when the fetch gave the   *)
(* empty object or raised.                                                  *)
GetDevicesJson ==
  \E reply \in DeviceReplies :
    /\ op' = [name |-> "get_devices_json", arg |-> "None"]
    /\ ret' = get_devices_json(reply)
    /\ devices_json' = IF reply.kind = "response" THEN reply.json ELSE devices_json
    /\ posted' = <<>>
    /\ UNCHANGED <<server, data, bypass_data, panel_data>>

GetChangedByJson ==
  \E area \in AreaNums :
    /\ op' = [name |-> "get_changed_by_json", arg |-> area]
    /\ ret' = get_changed_by_json(server, area)
    /\ posted' = <<>>
    /\ UNCHANGED <<devices_json, server, data, bypass_data, panel_data>>

GetSensorStates ==
  /\ op' = [name |-> "get_sensor_states", arg |-> devices_json]
  /\ data' = FreshData(data) \o get_sensor_states(devices_json).list
  /\ ret' = Held(data', get_sensor_states(devices_json).exc)
  /\ posted' = <<>>
  /\ UNCHANGED <<devices_json, server, bypass_data, panel_data>>

GetSensorBypassStates ==
  /\ op' = [name |-> "get_sensor_bypass_states", arg |-> devices_json]
  /\ bypass_data' = FreshBypass(bypass_data) \o get_sensor_bypass_states(devices_json).list
  /\ ret' = Held(bypass_data', get_sensor_bypass_states(devices_json).exc)
  /\ posted' = <<>>
  /\ UNCHANGED <<devices_json, server, data, panel_data>>

GetPanelStates ==
  /\ op' = [name |-> "get_panel_states", arg |-> devices_json]
  /\ panel_data' = FreshPanel(panel_data) \o get_panel_states(devices_json).list
  /\ devices_json' = [devices_json EXCEPT !.deviceProfile.areasLabels =
                                            get_panel_states(devices_json).labels]
  /\ ret' = Held(panel_data', get_panel_states(devices_json).exc)
  /\ posted' = <<>>
  /\ UNCHANGED <<server, data, bypass_data>>

GetPgmZones ==
  /\ op' = [name |-> "get_pgm_zones", arg |-> devices_json]
  /\ ret' = Outcome(get_pgm_zones(devices_json))
  /\ posted' = <<>>
  /\ UNCHANGED <<devices_json, server, data, bypass_data, panel_data>>

GetUkeyZones ==
  /\ op' = [name |-> "get_ukey_zones", arg |-> devices_json]
  /\ ret' = Outcome(get_ukey_zones(devices_json))
  /\ posted' = <<>>
  /\ UNCHANGED <<devices_json, server, data, bypass_data, panel_data>>

UpdateZone ==
  \E post_data \in Payloads :
    /\ op' = [name |-> "update_zone", arg |-> post_data]
    /\ posted' = <<post_data>>
    /\ ret' = update_zone(server, post_data)
    /\ UNCHANGED <<devices_json, server, data, bypass_data, panel_data>>

UpdatePgm ==
  \E pgm_data \in Payloads :
    /\ op' = [name |-> "update_pgm", arg |-> pgm_data]
    /\ posted' = <<pgm_data>>
    /\ ret' = update_pgm(server, pgm_data)
    /\ UNCHANGED <<devices_json, server, data, bypass_data, panel_data>>

UpdateUkey ==
  \E ukey_data \in Payloads :
    /\ op' = [name |-> "update_ukey", arg |-> ukey_data]
    /\ posted' = <<ukey_data>>
    /\ ret' = update_ukey(server, ukey_data)
    /\ UNCHANGED <<devices_json, server, data, bypass_data, panel_data>>

ArmArea ==
  \E a \in Contexts :
    /\ op' = [name |-> "arm_area", arg |-> a]
    /\ posted' = <<arm_area_payload(a)>>
    /\ ret' = update_zone(server, arm_area_payload(a))
    /\ UNCHANGED <<devices_json, server, data, bypass_data, panel_data>>

SleepArea ==
  \E a \in Contexts :
    /\ op' = [name |-> "sleep_area", arg |-> a]
    /\ posted' = <<sleep_area_payload(a)>>
    /\ ret' = update_zone(server, sleep_area_payload(a))
    /\ UNCHANGED <<devices_json, server, data, bypass_data, panel_data>>

StayArea ==
  \E a \in Contexts :
    /\ op' = [name |-> "stay_area", arg |-> a]
    /\ posted' = <<stay_area_payload(a)>>
    /\ ret' = update_zone(server, stay_area_payload(a))
    /\ UNCHANGED <<devices_json, server, data, bypass_data, panel_data>>

DisarmArea ==
  \E a \in Contexts :
    /\ op' = [name |-> "disarm_area", arg |-> a]
    /\ posted' = <<disarm_area_payload(a)>>
    /\ ret' = update_zone(server, disarm_area_payload(a))
    /\ UNCHANGED <<devices_json, server, data, bypass_data, panel_data>>

BypassZone ==
  \E zone \in Contexts :
    /\ op' = [name |-> "bypass_zone", arg |-> zone]
    /\ posted' = <<bypass_zone_payload(zone)>>
    /\ ret' = update_zone(server, bypass_zone_payload(zone))
    /\ UNCHANGED <<devices_json, server, data, bypass_data, panel_data>>

NextZones == GetSensorStates \/ GetSensorBypassStates
NextNorm ==
  \/ GetSensorStates \/ GetSensorBypassStates
  \/ GetPanelStates \/ GetPgmZones \/ GetUkeyZones
InitNorm == InitZones \/ InitPanel \/ InitPgm \/ InitUkey
NextSend ==
  \/ UpdateZone \/ UpdatePgm \/ UpdateUkey
  \/ ArmArea \/ SleepArea \/ StayArea \/ DisarmArea \/ BypassZone

NextFresh ==
  \/ GetDevicesJson
  \/ GetSensorStates \/ GetSensorBypassStates
  \/ GetPanelStates \/ GetPgmZones \/ GetUkeyZones

Next ==
  \/ GetDevicesJson
  \/ GetChangedByJson
  \/ GetSensorStates \/ GetSensorBypassStates
  \/ GetPanelStates \/ GetPgmZones \/ GetUkeyZones
  \/ UpdateZone \/ UpdatePgm \/ UpdateUkey
  \/ ArmArea \/ SleepArea \/ StayArea \/ DisarmArea \/ BypassZone

Spec == Init /\ [][Next]_vars
SpecActor == InitActor /\ [][GetChangedByJson]_vars
SpecZones == InitZones /\ [][NextZones]_vars
SpecPanel == InitPanel /\ [][GetPanelStates]_vars
SpecPgm == InitPgm /\ [][GetPgmZones]_vars
SpecUkey == InitUkey /\ [][GetUkeyZones]_vars
SpecSend == InitSend /\ [][NextSend]_vars
SpecNorm == InitNorm /\ [][NextNorm]_vars
SpecFresh == InitFresh /\ [][NextFresh]_vars

(* ------------------------------ properties ----------------------------- *)
Calls(name) == op.name = name

(* Indices of the actions of body that may name the last actor of area *)
Candidates(body, area) ==
  {k \in DOMAIN body : body[k].actionCmd \notin Blocklist /\ body[k].actionNum = area}

Latest(body, C) == CHOOSE m \in {body[k].actionCreated : k \in C} :
                     \A k \in C : body[k].actionCreated <= m

FirstAt(body, C, m) == CHOOSE k \in C :
  /\ body[k].actionCreated = m
  /\ \A j \in C : body[j].actionCreated = m => k <= j

(* C1: get_changed_by_json returns, of the actions of the requested area    *)
(* whose command is not blocklisted, the first one in list order carrying   *)
(* the maximum actionCreated; a blocklisted action is never returned; when  *)
(* no such action has actionCreated > 0 the "No User" sentinel is returned. *)
C1_LastActor ==
  (Calls("get_changed_by_json") /\ server.kind = "response" /\ server.status = 200) =>
    LET C == Candidates(server.body, op.arg)
    IN /\ ret.kind = "return"
       /\ ret.val.actionCmd \notin Blocklist
       /\ IF C = {} \/ Latest(server.body, C) = 0
          THEN ret.val = NoUser
          ELSE ret.val = server.body[FirstAt(server.body, C, Latest(server.body, C))]

C1_Witness ==
  /\ Calls("get_changed_by_json") /\ server.kind = "response" /\ server.status = 200
  /\ Len(server.body) = 2
  /\ server.body[1].actionCmd \in Blocklist /\ server.body[1].actionNum = op.arg
  /\ server.body[2].actionCmd \notin Blocklist /\ server.body[2].actionNum = op.arg
  /\ server.body[1].actionCreated > server.body[2].actionCreated
  /\ ret.kind = "return" /\ ret.val = server.body[2]

(* C2: when the actions endpoint answers 404, get_changed_by_json returns   *)
(* the "No User" sentinel for every area, whatever the response body holds. *)
C2_NotFoundSentinel ==
  (Calls("get_changed_by_json") /\ server.kind = "response" /\ server.status = 404) =>
    ret = Return(NoUser)

C2_Witness ==
  /\ Calls("get_changed_by_json") /\ server.kind = "response" /\ server.status = 404
  /\ \E k \in Candidates(server.body, op.arg) : server.body[k].actionCreated > 0
  /\ ret = Return(NoUser)

OkSpellings == {<<"o", "k">>, <<"O", "k">>, <<"o", "K">>, <<"O", "K">>}

Accepted == server.kind = "response" /\ server.resp.actionStatus \in OkSpellings

(* C3: update_zone, update_pgm and update_ukey never raise; they return     *)
(* True exactly when the POST completed and actionStatus is "ok" in any     *)
(* letter case, and False otherwise (other status, transport error).        *)
C3_SendAction ==
  (Calls("update_zone") \/ Calls("update_pgm") \/ Calls("update_ukey")) =>
    /\ ret.kind = "return"
    /\ ret.val = Accepted

C3_Witness ==
  /\ Calls("update_zone")
  /\ server.kind = "response" /\ server.resp.actionStatus = <<"O", "K">>
  /\ ret = Return(TRUE)

Profile == op.arg.deviceProfile
Live == op.arg.deviceState

(* C4: after get_sensor_states, for every zone index i below zonesLimit the *)
(* i-th record has state "on" if the raw zone code is "A" or "a" and "off"  *)
(* for any other code; a call that returns holds all zonesLimit records.    *)
C4_ZoneState ==
  Calls("get_sensor_states") =>
    /\ ret.kind = "return" => (ret.val = data /\ Len(data) >= Profile.zonesLimit)
    /\ \A i \in 0..(Profile.zonesLimit - 1) :
         i < Len(data) =>
           data[i + 1].state = IF Live.zones[i + 1] \in {<<"A">>, <<"a">>} THEN "on" ELSE "off"

C4_Witness ==
  /\ Calls("get_sensor_states") /\ ret.kind = "return"
  /\ Profile.zonesLimit = 2
  /\ Live.zones[1] = <<"A">> /\ data[1].state = "on"
  /\ Live.zones[2] = <<"b">> /\ data[2].state = "off"

(* The control strings that hold both position 0 and position 2 *)
Decodable(i) == Len(Profile.pgmControl[i]) >= 3

PgmCovered ==
  /\ Len(Live.pgm) >= Profile.pgmLimit
  /\ Len(Profile.pgmLabels) >= Profile.pgmLimit
  /\ Len(Profile.pgmControl) >= Profile.pgmLimit

(* C6: get_pgm_zones, given state, label and control entries for every      *)
(* index below pgmLimit, returns normally; it emits no record for an index  *)
(* whose control string is empty or too short to hold positions 0 and 2,    *)
(* and exactly one record for every other index i, in index order, with     *)
(* enabled = (char 0 is "1"), pulse = (char 2 is "1"), state = (raw code is *)
(* "a" in any letter case) and pgm_number = i + 1.                          *)
C6_PgmDecode ==
  (Calls("get_pgm_zones") /\ PgmCovered) =>
    /\ ret.kind = "return"
    /\ Len(ret.val) = Cardinality({i \in 1..Profile.pgmLimit : Decodable(i)})
    /\ \A k \in DOMAIN ret.val :
         LET n == ret.val[k].pgm_number
         IN /\ n \in 1..Profile.pgmLimit /\ Decodable(n)
            /\ k = Cardinality({i \in 1..n : Decodable(i)})
            /\ ret.val[k].enabled = (Profile.pgmControl[n][1] = "1")
            /\ ret.val[k].pulse = (Profile.pgmControl[n][3] = "1")
            /\ ret.val[k].state = (Live.pgm[n] \in {<<"a">>, <<"A">>})

C6_Witness ==
  /\ Calls("get_pgm_zones") /\ PgmCovered
  /\ Profile.pgmLimit = 2
  /\ Profile.pgmControl = <<(<<"1", "0">>), (<<"0", "1", "0">>)>>
  /\ ret.kind = "return" /\ Len(ret.val) = 1 /\ ret.val[1].pgm_number = 2

(* An index at which the body of the ukey loop fails *)
UkeyError(i) ==
  \/ i > Len(Profile.ukeysControl)
  \/ i > Len(Profile.ukeysLabels)
  \/ \E k \in DOMAIN Profile.ukeysControl[i] :
       Profile.ukeysControl[i][k] \notin {"0", "1", "2", "3", "4", "5", "6", "7", "8", "9"}

(* C8: get_ukey_zones never raises; if processing fails at some index below *)
(* ukeysLimit (non-integer control entry, control or label list too short)  *)
(* it returns the empty list, never the records built before the failure;   *)
(* otherwise it returns ukeysLimit records with state = (control entry is   *)
(* the integer 1) and ukey_number = i + 1.                                  *)
C8_UkeyFailFast ==
  Calls("get_ukey_zones") =>
    /\ ret.kind = "return"
    /\ IF \E i \in 1..Profile.ukeysLimit : UkeyError(i)
       THEN ret.val = <<>>
       ELSE /\ Len(ret.val) = Profile.ukeysLimit
            /\ \A i \in 1..Profile.ukeysLimit :
                 /\ ret.val[i].state = (Profile.ukeysControl[i] = <<"1">>)
                 /\ ret.val[i].ukey_number = i

C8_Witness ==
  /\ Calls("get_ukey_zones")
  /\ Profile.ukeysLimit = 2
  /\ ~UkeyError(1) /\ UkeyError(2)
  /\ ret = Return(<<>>)

Sent(cmd, num) == posted = <<[actionCmd |-> cmd, actionNum |-> num]>>

(* C9: arm_area, disarm_area, stay_area and sleep_area post exactly one     *)
(* payload with actionCmd area-arm / area-disarm / area-stay / area-sleep   *)
(* and actionNum the context's area; bypass_zone posts exactly one payload  *)
(* with actionCmd zone-bypass and actionNum the context's zone_num; each    *)
(* returns the boolean outcome of that POST.                                *)
C9_CommandBuilders ==
  /\ Calls("arm_area") => Sent("area-arm", op.arg.data.area)
  /\ Calls("disarm_area") => Sent("area-disarm", op.arg.data.area)
  /\ Calls("stay_area") => Sent("area-stay", op.arg.data.area)
  /\ Calls("sleep_area") => Sent("area-sleep", op.arg.data.area)
  /\ Calls("bypass_zone") => Sent("zone-bypass", op.arg.data.zone_num)
  /\ op.name \in {"arm_area", "disarm_area", "stay_area", "sleep_area", "bypass_zone"} =>
       ret = Return(Accepted)

C9_Witness ==
  /\ Calls("sleep_area") /\ op.arg.data.area = 2 /\ op.arg.data.zone_num = 1
  /\ Sent("area-sleep", 2)
  /\ ret = Return(TRUE)

(* C10: for one snapshot, the i-th zone record and the i-th bypass record   *)
(* are never both "on": the bypass record is "on" iff the raw code is "b"   *)
(* in any letter case, the zone record iff it is "a" in any letter case.    *)
C10_ZoneBypassExclusive ==
  \A i \in 1..devices_json.deviceProfile.zonesLimit :
    (i <= Len(data) /\ i <= Len(bypass_data)) =>
      /\ ~(data[i].state = "on" /\ bypass_data[i].state = "on")
      /\ bypass_data[i].state = "on" <=> devices_json.deviceState.zones[i] \in {<<"b">>, <<"B">>}
      /\ data[i].state = "on" <=> devices_json.deviceState.zones[i] \in {<<"a">>, <<"A">>}

C10_Witness ==
  /\ Calls("get_sensor_bypass_states") /\ ret.kind = "return"
  /\ Len(data) >= 2 /\ Len(bypass_data) = 2
  /\ data[1].state = "on" /\ bypass_data[1].state = "off"
  /\ data[2].state = "off" /\ bypass_data[2].state = "on"

(* The name a record of index i (1-based) is to carry *)
NameFor(prefix, labels, i) ==
  IF i > Len(labels) \/ Strip(labels[i]) = <<>> THEN prefix \o IntToStr(i) ELSE labels[i]

Min(a, b) == IF a < b THEN a ELSE b

(* C5: in all four normalizers, for every index i an empty, whitespace-only *)
(* or missing label yields the name "Zone {i+1}" / "Area {i+1}" /           *)
(* "PGM {i+1}" / "Ukey {i+1}", and a non-empty label is echoed verbatim.    *)
C5_LabelDefaulting ==
  /\ (Calls("get_sensor_states") /\ ret.kind = "return") =>
       \A i \in 1..Profile.zonesLimit :
         ret.val[i].name = NameFor(ZoneStr, Profile.zonesLabels, i)
  /\ (Calls("get_sensor_bypass_states") /\ ret.kind = "return") =>
       \A i \in 1..Profile.zonesLimit :
         ret.val[i].name = NameFor(ZoneStr, Profile.zonesLabels, i)
  /\ Calls("get_panel_states") =>
       /\ ret.kind = "return"
       /\ Len(ret.val) = Min(Profile.areasLimit, Len(Live.areas))
       /\ \A i \in DOMAIN ret.val :
            ret.val[i].name = NameFor(AreaStr, Profile.areasLabels, i)
  /\ (Calls("get_pgm_zones") /\ Len(Live.pgm) >= Profile.pgmLimit
        /\ Len(Profile.pgmControl) >= Profile.pgmLimit) =>
       \A i \in 1..Profile.pgmLimit :
         Len(Profile.pgmControl[i]) >= 3 =>
           /\ ret.kind = "return"
           /\ \E k \in DOMAIN ret.val :
                /\ ret.val[k].pgm_number = i
                /\ ret.val[k].name = NameFor(PgmStr, Profile.pgmLabels, i)
  /\ (Calls("get_ukey_zones") /\ Len(Profile.ukeysControl) >= Profile.ukeysLimit
        /\ \A i \in 1..Profile.ukeysLimit : Profile.ukeysControl[i] \in {<<"0">>, <<"1">>}) =>
       /\ ret.kind = "return"
       /\ Len(ret.val) = Profile.ukeysLimit
       /\ \A i \in DOMAIN ret.val :
            ret.val[i].name = NameFor(UkeyStr, Profile.ukeysLabels, i)

(* C7: the number of zone records and of bypass records is zonesLimit, the  *)
(* number of PGM records is at most pgmLimit and of ukey records at most    *)
(* ukeysLimit, whatever the length of the live arrays; the number of area   *)
(* records is min(areasLimit, length of the live areas list).               *)
C7_RecordCounts ==
  /\ Calls("get_sensor_states") =>
       /\ ret.kind = "return"
       /\ Len(ret.val) = Profile.zonesLimit + Len(Live.power)
  /\ Calls("get_sensor_bypass_states") =>
       /\ ret.kind = "return"
       /\ Len(ret.val) = Profile.zonesLimit
  /\ (Calls("get_pgm_zones") /\ ret.kind = "return") => Len(ret.val) <= Profile.pgmLimit
  /\ (Calls("get_ukey_zones") /\ ret.kind = "return") => Len(ret.val) <= Profile.ukeysLimit
  /\ Calls("get_panel_states") =>
       /\ ret.kind = "return"
       /\ Len(ret.val) = Min(Profile.areasLimit, Len(Live.areas))

(* A zone or bypass record of index i as the snapshot of the call gives it *)
ZoneDerived(r, i, onCodes) ==
  /\ i <= Len(Live.zones)
  /\ r.name = NameFor(ZoneStr, Profile.zonesLabels, i)
  /\ r.state = IF Live.zones[i] \in onCodes THEN "on" ELSE "off"
  /\ r.last_changed = [wallclock |-> Live.zonesStamp[i] \div 1000 + 7200]

PowerDerived(r, k) ==
  /\ k <= Len(Live.power)
  /\ r.state = IF Live.power[k].value = 1 THEN "on" ELSE "off"
  /\ r.type = IF Live.power[k].key = "Batt" THEN 1001 ELSE 1000

(* The list a call left behind holds records of the call's snapshot only *)
OnlyFromSnapshot ==
  /\ Calls("get_sensor_states") =>
       /\ ret.kind = "return" => ret.val = data
       /\ Len(data) <= Profile.zonesLimit + Len(Live.power)
       /\ \A i \in DOMAIN data :
            IF i <= Profile.zonesLimit
            THEN ZoneDerived(data[i], i, {<<"a">>, <<"A">>})
            ELSE PowerDerived(data[i], i - Profile.zonesLimit)
  /\ Calls("get_sensor_bypass_states") =>
       /\ ret.kind = "return" => ret.val = bypass_data
       /\ Len(bypass_data) <= Profile.zonesLimit
       /\ \A i \in DOMAIN bypass_data : ZoneDerived(bypass_data[i], i, {<<"b">>, <<"B">>})
  /\ Calls("get_panel_states") =>
       /\ ret.kind = "return" => ret.val = panel_data
       /\ Len(panel_data) <= Min(Profile.areasLimit, Len(Live.areas))
       /\ \A k \in DOMAIN panel_data :
            \E i \in k..Min(Profile.areasLimit, Len(Live.areas)) :
              /\ i <= Len(Profile.areasLabels)
              /\ panel_data[k].state = Live.areas[i]
              /\ panel_data[k].name = IF Profile.areasLabels[i] = <<>>
                                       THEN AreaStr \o IntToStr(i)
                                       ELSE Profile.areasLabels[i]
  /\ (Calls("get_pgm_zones") /\ ret.kind = "return") =>
       /\ Len(ret.val) <= Profile.pgmLimit
       /\ \A k \in DOMAIN ret.val :
            LET n == ret.val[k].pgm_number
            IN /\ n \in k..Profile.pgmLimit
               /\ ret.val[k].state = (Live.pgm[n] \in {<<"a">>, <<"A">>})
               /\ ret.val[k].enabled = (Profile.pgmControl[n][1] = "1")
  /\ (Calls("get_ukey_zones") /\ ret.kind = "return") =>
       /\ Len(ret.val) <= Profile.ukeysLimit
       /\ \A k \in DOMAIN ret.val :
            /\ ret.val[k].ukey_number = k
            /\ ret.val[k].state = (Profile.ukeysControl[k] = <<"1">>)

(* A call of one normalizer leaves the lists of the others as they were *)
OthersKept ==
  /\ op'.name = "get_sensor_states" => (bypass_data' = bypass_data /\ panel_data' = panel_data)
  /\ op'.name = "get_sensor_bypass_states" => (data' = data /\ panel_data' = panel_data)
  /\ op'.name = "get_panel_states" => (data' = data /\ bypass_data' = bypass_data)
  /\ op'.name \in {"get_pgm_zones", "get_ukey_zones"} =>
       (data' = data /\ bypass_data' = bypass_data /\ panel_data' = panel_data)

(* C11: after any sequence of normalization calls with changing snapshots,  *)
(* the list a call returns and the instance list it overwrites (data,       *)
(* bypass_data, panel_data) hold only records derived from the snapshot of  *)
(* that call, none carried over from an earlier call, and the call leaves   *)
(* the instance lists of the other normalizers unchanged.                   *)
C11_FreshRecomputation == []OnlyFromSnapshot /\ [][OthersKept]_vars

(* get_sensor_states on a one-zone snapshot, while bypass_data still holds  *)
(* the two records of an earlier, different snapshot                        *)
C11_Witness ==
  /\ Calls("get_sensor_states") /\ ret.kind = "return"
  /\ Profile.zonesLimit = 1 /\ Len(data) = 2
  /\ Len(bypass_data) = 2 /\ bypass_data[1].state = "off" /\ data[1].state = "off"
  /\ Len(panel_data) = 2

====
